---------------------------- MODULE Spec2Model ----------------------------
(***************************************************************************)
(* A model of scripts/create_lmdb.py: the store builder create_lmdb, the   *)
(* store verifier check_lmdb and the driver under __main__.                *)
(*                                                                         *)
(* Strings the code takes apart or orders (sequence ids, filter-file       *)
(* lines, keys) are sequences of one-character strings.  A decoded image   *)
(* is its numpy shape (uint8 elements); an image that cv2.imread cannot    *)
(* decode is None.  A stored value is the number of bytes of its buffer.   *)
(***************************************************************************)
EXTENDS Naturals, Sequences, FiniteSets, TLC

(***************************************************************************)
(* Bounds of the model.                                                    *)
(***************************************************************************)
\* total number of *.png frames in a generated raw directory
MaxFrames == 3
\* number of single-frame sequences in the largest batching directory
MaxBatchSeqs == 11
\* length of the longest sequence id of the key round trip
MaxIdLen == 3

(***************************************************************************)
(* Characters and strings.                                                 *)
(***************************************************************************)
\* the characters the model uses, in code-point order
CharOrder == <<"\n", " ", "0", "1", "2", "3", "4", "5", "6", "7", "8", "9",
               "_", "a", "b", "e", "q", "s", "x">>

Ord(c) == CHOOSE k \in 1..Len(CharOrder) : CharOrder[k] = c

Whitespace == {"\n", " "}

DigitChars == <<"0", "1", "2", "3", "4", "5", "6", "7", "8", "9">>

\* str < str of Python: lexicographic by code point, a proper prefix first
RECURSIVE StrLess(_, _)
StrLess(s, t) ==
    IF t = <<>> THEN FALSE
    ELSE IF s = <<>> THEN TRUE
    ELSE IF Head(s) # Head(t) THEN Ord(Head(s)) < Ord(Head(t))
    ELSE StrLess(Tail(s), Tail(t))

\* the list with x inserted after the last element that is not greater
RECURSIVE Insert(_, _)
Insert(x, lst) ==
    IF lst = <<>> THEN <<x>>
    ELSE IF StrLess(x, Head(lst)) THEN <<x>> \o lst
    ELSE <<Head(lst)>> \o Insert(x, Tail(lst))

\* sorted(list of str)
RECURSIVE Sorted(_)
Sorted(lst) ==
    IF lst = <<>> THEN <<>>
    ELSE Insert(lst[Len(lst)], Sorted(SubSeq(lst, 1, Len(lst) - 1)))

\* os.listdir: the names of a directory, in an order the file system picks
RECURSIVE ListDir(_)
ListDir(names) ==
    IF names = {} THEN <<>>
    ELSE LET x == CHOOSE y \in names : TRUE
         IN  <<x>> \o ListDir(names \ {x})

\* str.strip()
RECURSIVE Strip(_)
Strip(s) ==
    IF s = <<>> THEN s
    ELSE IF Head(s) \in Whitespace THEN Strip(Tail(s))
    ELSE IF s[Len(s)] \in Whitespace THEN Strip(SubSeq(s, 1, Len(s) - 1))
    ELSE s

\* str.split(sep) for a one-character separator
RECURSIVE Split(_, _)
Split(s, sep) ==
    IF \A k \in 1..Len(s) : s[k] # sep THEN <<s>>
    ELSE LET p == CHOOSE k \in 1..Len(s) :
                      s[k] = sep /\ \A j \in 1..(k - 1) : s[j] # sep
         IN  <<SubSeq(s, 1, p - 1)>> \o Split(SubSeq(s, p + 1, Len(s)), sep)

\* sep.join(list)
RECURSIVE Join(_, _)
Join(lst, sep) ==
    IF lst = <<>> THEN <<>>
    ELSE IF Len(lst) = 1 THEN lst[1]
    ELSE lst[1] \o <<sep>> \o Join(Tail(lst), sep)

\* f'{n}' for a non-negative int
RECURSIVE Dec(_)
Dec(n) ==
    IF n < 10 THEN <<DigitChars[n + 1]>>
    ELSE Dec(n \div 10) \o <<DigitChars[(n % 10) + 1]>>

\* f'{i:04d}': zero-padded to at least 4 digits
RECURSIVE ZeroPad(_, _)
ZeroPad(s, width) == IF Len(s) >= width THEN s ELSE ZeroPad(<<"0">> \o s, width)

Pad4(i) == ZeroPad(Dec(i), 4)

\* int(str) of a digit string; -1 stands for the ValueError of anything else
RECURSIVE IntOfDigits(_, _)
IntOfDigits(s, acc) ==
    IF s = <<>> THEN acc
    ELSE IntOfDigits(Tail(s),
                     10 * acc + (CHOOSE d \in 0..9 : DigitChars[d + 1] = Head(s)))

ParseInt(s) ==
    IF s = <<>> \/ \E k \in 1..Len(s) : \A d \in 1..10 : DigitChars[d] # s[k]
    THEN 0 - 1
    ELSE IntOfDigits(s, 0)

\* a mutant of FormatKey: the frame index is not zero-padded
FormatKeyNoPad(seq_dir, n_frm, h, w, i) ==
    seq_dir \o <<"_">> \o Dec(n_frm) \o <<"x">> \o Dec(h) \o <<"x">> \o Dec(w)
            \o <<"_">> \o Dec(i)

\* a mutant of FormatKey: every frame of a sequence gets the index 0
FormatKeyNoIndex(seq_dir, n_frm, h, w, i) ==
    seq_dir \o <<"_">> \o Dec(n_frm) \o <<"x">> \o Dec(h) \o <<"x">> \o Dec(w)
            \o <<"_">> \o Pad4(0)

\* f'{seq_dir}_{n_frm}x{h}x{w}_{i:04d}'
FormatKey(seq_dir, n_frm, h, w, i) ==
    seq_dir \o <<"_">> \o Dec(n_frm) \o <<"x">> \o Dec(h) \o <<"x">> \o Dec(w)
            \o <<"_">> \o Pad4(i)

\* a mutant of ParseKey: the sequence id is the first segment only
ParseKeyFirstSegment(key) ==
    LET key_lst == Split(key, "_")
        n == Len(key_lst)
        szs == IF n < 2 THEN <<>> ELSE Split(key_lst[n - 1], "x")
        ints == [j \in 1..Len(szs) |-> ParseInt(szs[j])]
    IN  [ok  |-> n >= 2 /\ \A j \in 1..Len(ints) : ints[j] >= 0,
         vid |-> key_lst[1],
         sz  |-> SubSeq(ints, 2, Len(ints)) \o <<3>>,
         frm |-> key_lst[n]]

\* check_lmdb's parse of a key; ok is FALSE where the code raises
ParseKey(key) ==
    LET key_lst == Split(key, "_")
        n == Len(key_lst)
        szs == IF n < 2 THEN <<>> ELSE Split(key_lst[n - 1], "x")
        ints == [j \in 1..Len(szs) |-> ParseInt(szs[j])]
    IN  [ok  |-> n >= 2 /\ \A j \in 1..Len(ints) : ints[j] >= 0,
         vid |-> IF n < 2 THEN <<>> ELSE Join(SubSeq(key_lst, 1, n - 2), "_"),
         sz  |-> SubSeq(ints, 2, Len(ints)) \o <<3>>,
         frm |-> key_lst[n]]

RECURSIVE Product(_)
Product(shape) == IF shape = <<>> THEN 1 ELSE Head(shape) * Product(Tail(shape))


(***************************************************************************)
(* Inputs: the dataset argument, the raw directory, the filter file.       *)
(***************************************************************************)
\* values of --dataset: the two recognized ones and one that is not
Datasets == {"VimeoTecoGAN", "VimeoTecoGAN-sub", "REDS"}

\* a mutant of RecognizedDatasets: the assertion lets every dataset pass
RecognizedAny == Datasets

\* the tuple of the assertions at lines 14 and 88
RecognizedDatasets == {"VimeoTecoGAN", "VimeoTecoGAN-sub"}

commit_freq == 5

\* what cv2.imread(path, cv2.IMREAD_UNCHANGED) returns
NoneImg == [decoded |-> FALSE, shape |-> <<>>]

Arr(shape) == [decoded |-> TRUE, shape |-> shape]

Gray1x1 == Arr(<<1, 1>>)

Rgb1x1 == Arr(<<1, 1, 3>>)

Rgb2x1 == Arr(<<2, 1, 3>>)

Rgba1x1 == Arr(<<1, 1, 4>>)

Rgb64x64 == Arr(<<64, 64, 3>>)

\* ndarray.nbytes of a uint8 array
NBytes(img) == Product(img.shape)

GenImages == {NoneImg, Gray1x1, Rgb1x1, Rgb2x1, Rgba1x1}

IdA == <<"b">>

IdB == <<"a", "_", "b">>

FrameLists(n) == [1..n -> GenImages]

\* raw directories over the sequence directories b and a_b with at most
\* MaxFrames frames in all; a directory maps each sequence directory to the
\* decoded images of its *.png files in sorted path order
GeneralDirs ==
    UNION { UNION { { (IdA :> fa) @@ (IdB :> fb) :
                          fa \in FrameLists(na), fb \in FrameLists(nb) }
                    \cup (IF nb = 0
                          THEN { (IdA :> fa) : fa \in FrameLists(na) }
                               \cup { (IdB :> fa) : fa \in FrameLists(na) }
                          ELSE {})
                    : nb \in 0..(MaxFrames - na) }
            : na \in 0..MaxFrames }
    \cup { [d \in {} |-> <<>>] }

BatchId(k) == <<"s">> \o Dec(k)

\* raw directories of 1..MaxBatchSeqs sequences of one 1x1 RGB frame each
BatchDirs ==
    { [d \in { BatchId(k) : k \in 0..(ns - 1) } |-> <<Rgb1x1>>] :
          ns \in 1..MaxBatchSeqs }

Seq01 == <<"s", "e", "q", "0", "1">>

Seq02 == <<"s", "e", "q", "0", "2">>

\* seq01 with 3 frames and seq02 with 2 frames, all 64x64 RGB
ScenarioDir ==
    (Seq01 :> <<Rgb64x64, Rgb64x64, Rgb64x64>>) @@ (Seq02 :> <<Rgb64x64, Rgb64x64>>)

\* filter_file = '' (none given)
NoFilter == [given |-> FALSE, lines |-> <<>>]

FilterOf(lines) == [given |-> TRUE, lines |-> lines]

\* filter files: both sequences out of order, and one sequence listed twice
FilterFiles ==
    { NoFilter,
      FilterOf(<<IdA \o <<"\n">>, IdB \o <<"\n">>>>),
      FilterOf(<<IdA \o <<"\n">>, <<" ">> \o IdA>>) }

Inputs ==
    (GeneralDirs \X FilterFiles) \cup ((BatchDirs \cup {ScenarioDir}) \X {NoFilter})

\* inputs of the key round trip
KeyChars == {"a", "_", "x", "1"}

KeyIds == UNION { [1..n -> KeyChars] : n \in 0..MaxIdLen }

KeyDims == {1, 10, 64}

KeyIndexes == {0, 1, 10, 9999, 10000}

KeyInputs ==
    [seq : KeyIds, n : KeyDims, h : KeyDims, w : KeyDims, i : KeyIndexes]

NoKeyInput == [seq |-> <<>>, n |-> 0, h |-> 0, w |-> 0, i |-> 0]

NoParse == [ok |-> FALSE, vid |-> <<>>, sz |-> <<>>, frm |-> <<>>]

(***************************************************************************)
(* State.                                                                  *)
(***************************************************************************)
VARIABLES
    dataset,      \* args.dataset
    rawDir,       \* raw_dir: sequence directory -> decoded frames
    filterFile,   \* filter_file and the lines of the file
    lmdbDir,      \* whether the directory lmdb_dir exists
    committed,    \* the committed entries of the store: key -> len(value)
    metaFile,     \* meta_info.pkl: absent, empty (created) or written
    pc,           \* the line the run is at
    err,          \* the exception that ended the run
    calls,        \* which of create_lmdb, check_lmdb the driver called
    io,           \* the kinds of I/O this run has performed
    seq_dir_lst, nbytes, alloc_size, b, i, keys,   \* locals of create_lmdb
    txn,          \* the write transaction: open, and its pending puts
    ckeys, iter, sample,                           \* locals of check_lmdb
    nwritten,     \* value bytes this run has put
    seqsInTxn,    \* sequences finished in the current write transaction
    commitLog,    \* per periodic commit, the sequences it committed
    existed,      \* whether lmdb_dir existed when the run started
    kin, kkey, kparsed                             \* the key round trip

fsVars == <<dataset, rawDir, filterFile>>

storeVars == <<lmdbDir, committed, metaFile>>

createVars == <<seq_dir_lst, nbytes, alloc_size, b, i, keys, txn>>

checkVars == <<ckeys, iter, sample>>

histVars == <<nwritten, seqsInTxn, commitLog, existed>>

keyVars == <<kin, kkey, kparsed>>

vars == <<fsVars, storeVars, pc, err, calls, io, createVars, checkVars, histVars,
          keyVars>>

EmptyStore == [k \in {} |-> 0]

NoTxn == [open |-> FALSE, puts |-> EmptyStore]

NoMeta == [state |-> "absent", name |-> "", keys |-> <<>>]

NoSample == [key |-> <<>>, vid |-> <<>>, sz |-> <<>>, frm |-> <<>>]

\* the locals of a run before create_lmdb or check_lmdb has set them
LocalsInit ==
    /\ seq_dir_lst = <<>> /\ nbytes = 0 /\ alloc_size = 0 /\ b = 0 /\ i = 0
    /\ keys = <<>> /\ txn = NoTxn
    /\ ckeys = <<>> /\ iter = 0 /\ sample = NoSample

\* the locals are gone when their function returns or the process ends
LocalsReset ==
    /\ seq_dir_lst' = <<>> /\ nbytes' = 0 /\ alloc_size' = 0 /\ b' = 0 /\ i' = 0
    /\ keys' = <<>> /\ txn' = NoTxn
    /\ ckeys' = <<>> /\ iter' = 0 /\ sample' = NoSample

\* an unhandled exception ends the process: its locals and its open write
\* transaction are gone
Raise(e) ==
    /\ pc' = "failed"
    /\ err' = e
    /\ LocalsReset

Init ==
    /\ dataset \in Datasets
    /\ \E in \in Inputs : rawDir = in[1] /\ filterFile = in[2]
    /\ lmdbDir \in BOOLEAN
    /\ committed = EmptyStore
    /\ metaFile = NoMeta
    /\ pc = "main" /\ err = "" /\ calls = <<>> /\ io = {}
    /\ LocalsInit
    /\ nwritten = 0 /\ seqsInTxn = 0 /\ commitLog = <<>> /\ existed = lmdbDir
    /\ kin = NoKeyInput /\ kkey = <<>> /\ kparsed = NoParse

(***************************************************************************)
(* Helpers of create_lmdb.                                                 *)
(***************************************************************************)
\* sorted(glob.glob(osp.join(raw_dir, seq_dir, '*.png'))), as decoded frames;
\* a directory that does not exist matches nothing
Glob(seq_dir) == IF seq_dir \in DOMAIN rawDir THEN rawDir[seq_dir] ELSE <<>>

\* the sequence list before it is sorted
SeqDirNames ==
    IF filterFile.given
    THEN [j \in 1..Len(filterFile.lines) |-> Strip(filterFile.lines[j])]
    ELSE ListDir(DOMAIN rawDir)

\* a mutant of NumFrames: the last frame is left out
NumFramesLessOne(frm_path_lst) == Len(frm_path_lst) - 1

\* n_frm = len(frm_path_lst)
NumFrames(frm_path_lst) == Len(frm_path_lst)

\* seq_dir_lst of lines 18-22
SeqDirLst == Sorted(SeqDirNames)

\* round(twice / 2) of Python 3: a half goes to the even neighbour
RoundHalfEven(twice) ==
    IF twice % 2 = 0 THEN twice \div 2
    ELSE IF ((twice - 1) \div 2) % 2 = 0 THEN (twice - 1) \div 2
    ELSE (twice + 1) \div 2

\* a mutant of AllocSize: a factor of 0.5 in place of 1.5
AllocSizeHalf(nb) == RoundHalfEven(nb)

\* alloc_size = round(1.5*nbytes)
AllocSize(nb) == RoundHalfEven(3 * nb)

\* txn.put(key, value) on the entries of a store or of a transaction
Put(entries, key, n) == (key :> n) @@ entries

\* a mutant of Commit: the pending puts are dropped
CommitNothing(store, puts) == store

\* txn.commit(): the pending puts replace what the store holds
Commit(store, puts) == puts @@ store

NumSamples == 3

(***************************************************************************)
(* The driver, lines 116-139.                                              *)
(***************************************************************************)
\* a mutant of StoreExists: the driver rebuilds a store that exists
StoreExistsNegated == ~lmdbDir

\* osp.exists(lmdb_dir)
StoreExists == lmdbDir

\* the script is started again after a run has ended
Invoke ==
    /\ pc \in {"done", "failed"}
    /\ pc' = "main" /\ err' = "" /\ calls' = <<>> /\ io' = {}
    /\ LocalsReset
    /\ nwritten' = 0 /\ seqsInTxn' = 0 /\ commitLog' = <<>> /\ existed' = lmdbDir
    /\ UNCHANGED <<fsVars, storeVars, keyVars>>

\* lines 131-136: check_lmdb alone if the store directory exists, else
\* create_lmdb first
Main ==
    /\ pc = "main"
    /\ io' = io \cup {"exists"}
    /\ IF StoreExists
       THEN pc' = "check_assert" /\ calls' = Append(calls, "check_lmdb")
       ELSE pc' = "create_assert" /\ calls' = Append(calls, "create_lmdb")
    /\ UNCHANGED <<fsVars, storeVars, err, createVars, checkVars, histVars, keyVars>>

(***************************************************************************)
(* create_lmdb, lines 13-73.                                               *)
(***************************************************************************)
\* line 14
CreateAssert ==
    /\ pc = "create_assert"
    /\ IF dataset \in RecognizedDatasets
       THEN pc' = "retrieve" /\ UNCHANGED <<err, createVars, checkVars>>
       ELSE Raise("AssertionError")
    /\ UNCHANGED <<fsVars, storeVars, calls, io, histVars, keyVars>>

\* lines 17-23
Retrieve ==
    /\ pc = "retrieve"
    /\ seq_dir_lst' = SeqDirLst
    /\ io' = io \cup {IF filterFile.given THEN "read_filter" ELSE "listdir"}
    /\ pc' = "estimate"
    /\ UNCHANGED <<fsVars, storeVars, err, calls, nbytes, alloc_size, b, i, keys,
                   txn, checkVars, histVars, keyVars>>

\* lines 28-31, one sequence
Estimate ==
    /\ pc = "estimate"
    /\ b < Len(seq_dir_lst)
    /\ io' = io \cup {"glob", "imread"}
    /\ LET frm_path_lst == Glob(seq_dir_lst[b + 1])
       IN  IF frm_path_lst = <<>> THEN Raise("IndexError")
           ELSE IF ~frm_path_lst[1].decoded THEN Raise("AttributeError")
           ELSE /\ nbytes' = nbytes + Len(frm_path_lst) * NBytes(frm_path_lst[1])
                /\ b' = b + 1
                /\ UNCHANGED <<pc, err, seq_dir_lst, alloc_size, i, keys, txn,
                               checkVars>>
    /\ UNCHANGED <<fsVars, storeVars, calls, histVars, keyVars>>

\* line 32
ComputeAlloc ==
    /\ pc = "estimate"
    /\ b = Len(seq_dir_lst)
    /\ alloc_size' = AllocSize(nbytes)
    /\ b' = 0
    /\ pc' = "open"
    /\ UNCHANGED <<fsVars, storeVars, err, calls, io, seq_dir_lst, nbytes, i, keys,
                   txn, checkVars, histVars, keyVars>>

\* lines 36-41: lmdb.open creates the directory; the first write transaction
OpenStore ==
    /\ pc = "open"
    /\ lmdbDir' = TRUE
    /\ io' = io \cup {"lmdb_open"}
    /\ keys' = <<>>
    /\ txn' = [open |-> TRUE, puts |-> EmptyStore]
    /\ pc' = "write"
    /\ UNCHANGED <<fsVars, committed, metaFile, err, calls, seq_dir_lst, nbytes,
                   alloc_size, b, i, checkVars, histVars, keyVars>>

\* lines 47-58, one frame of sequence b
PutFrame ==
    /\ pc = "write"
    /\ b < Len(seq_dir_lst)
    /\ i < NumFrames(Glob(seq_dir_lst[b + 1]))
    /\ LET seq_dir == seq_dir_lst[b + 1]
           frm_path_lst == Glob(seq_dir)
           n_frm == NumFrames(frm_path_lst)
           frm == frm_path_lst[i + 1]
       IN  IF ~frm.decoded
           THEN Raise("TypeError") /\ io' = io \cup {"glob", "imread"}
                /\ UNCHANGED histVars
           ELSE IF Len(frm.shape) # 3
           THEN Raise("ValueError") /\ io' = io \cup {"glob", "imread"}
                /\ UNCHANGED histVars
           ELSE LET key == FormatKey(seq_dir, n_frm, frm.shape[1], frm.shape[2], i)
                IN  /\ txn' = [txn EXCEPT !.puts = Put(@, key, NBytes(frm))]
                    /\ keys' = Append(keys, key)
                    /\ i' = i + 1
                    /\ nwritten' = nwritten + NBytes(frm)
                    /\ io' = io \cup {"glob", "imread", "put"}
                    /\ UNCHANGED <<pc, err, seq_dir_lst, nbytes, alloc_size, b,
                                   checkVars, seqsInTxn, commitLog, existed>>
    /\ UNCHANGED <<fsVars, storeVars, calls, keyVars>>

\* a mutant of CommitDue: the commit comes after every fifth sequence
CommitDueAfterFifth(idx) == (idx + 1) % commit_freq = 0

\* line 61
CommitDue(idx) == idx % commit_freq = 0

\* lines 61-63, at the end of sequence b
EndSeq ==
    /\ pc = "write"
    /\ b < Len(seq_dir_lst)
    /\ i = NumFrames(Glob(seq_dir_lst[b + 1]))
    /\ IF CommitDue(b)
       THEN /\ committed' = Commit(committed, txn.puts)
            /\ txn' = [open |-> TRUE, puts |-> EmptyStore]
            /\ commitLog' = Append(commitLog, seqsInTxn + 1)
            /\ seqsInTxn' = 0
            /\ io' = io \cup {"commit"}
       ELSE /\ seqsInTxn' = seqsInTxn + 1
            /\ UNCHANGED <<committed, txn, commitLog, io>>
    /\ b' = b + 1
    /\ i' = 0
    /\ UNCHANGED <<fsVars, lmdbDir, metaFile, pc, err, calls, seq_dir_lst, nbytes,
                   alloc_size, keys, checkVars, nwritten, existed, keyVars>>

\* lines 65-66
FinalCommit ==
    /\ pc = "write"
    /\ b = Len(seq_dir_lst)
    /\ committed' = Commit(committed, txn.puts)
    /\ txn' = NoTxn
    /\ seqsInTxn' = 0
    /\ io' = io \cup {"commit"}
    /\ pc' = "open_meta"
    /\ UNCHANGED <<fsVars, lmdbDir, metaFile, err, calls, seq_dir_lst, nbytes,
                   alloc_size, b, i, keys, checkVars, nwritten, commitLog, existed,
                   keyVars>>

\* line 73, open(..., 'wb'): the file is created empty
OpenMeta ==
    /\ pc = "open_meta"
    /\ metaFile' = [state |-> "empty", name |-> "", keys |-> <<>>]
    /\ io' = io \cup {"write_meta"}
    /\ pc' = "dump_meta"
    /\ UNCHANGED <<fsVars, lmdbDir, committed, err, calls, createVars, checkVars,
                   histVars, keyVars>>

\* lines 69-73, pickle.dump; create_lmdb returns and line 139 calls check_lmdb
DumpMeta ==
    /\ pc = "dump_meta"
    /\ metaFile' = [state |-> "written", name |-> dataset, keys |-> keys]
    /\ calls' = Append(calls, "check_lmdb")
    /\ pc' = "check_assert"
    /\ LocalsReset
    /\ UNCHANGED <<fsVars, lmdbDir, committed, err, io, histVars, keyVars>>

(***************************************************************************)
(* check_lmdb, lines 76-113, called with display=True.                     *)
(***************************************************************************)
\* line 88
CheckAssert ==
    /\ pc = "check_assert"
    /\ IF dataset \in RecognizedDatasets
       THEN pc' = "load_meta" /\ UNCHANGED <<err, createVars, checkVars>>
       ELSE Raise("AssertionError")
    /\ UNCHANGED <<fsVars, storeVars, calls, io, histVars, keyVars>>

\* lines 92-94
LoadMeta ==
    /\ pc = "load_meta"
    /\ io' = io \cup {"read_meta"}
    /\ IF metaFile.state = "absent" THEN Raise("FileNotFoundError")
       ELSE IF metaFile.state = "empty" THEN Raise("EOFError")
       ELSE /\ ckeys' = metaFile.keys
            /\ pc' = "open_read"
            /\ UNCHANGED <<err, createVars, iter, sample>>
    /\ UNCHANGED <<fsVars, storeVars, calls, histVars, keyVars>>

\* line 97
OpenRead ==
    /\ pc = "open_read"
    /\ io' = io \cup {"lmdb_open"}
    /\ iter' = 0
    /\ pc' = "sample"
    /\ UNCHANGED <<fsVars, storeVars, err, calls, createVars, ckeys, sample,
                   histVars, keyVars>>

\* np.frombuffer(buf, dtype=np.uint8).reshape(*sz) succeeds
Reshapes(buflen, sz) == buflen = Product(sz)

\* lines 99-113, one of the 3 samples
Sample ==
    /\ pc = "sample"
    /\ iter < NumSamples
    /\ IF ckeys = <<>>
       THEN Raise("ValueError") /\ UNCHANGED io
       ELSE \E idx \in 1..Len(ckeys) :
              LET key == ckeys[idx]
                  parsed == ParseKey(key)
              IN  IF ~parsed.ok
                  THEN Raise("ValueError") /\ UNCHANGED io
                  ELSE IF key \notin DOMAIN committed
                  THEN Raise("TypeError") /\ io' = io \cup {"get"}
                  ELSE IF ~Reshapes(committed[key], parsed.sz)
                  THEN Raise("ValueError") /\ io' = io \cup {"get"}
                  ELSE /\ sample' = [key |-> key, vid |-> parsed.vid,
                                     sz |-> parsed.sz, frm |-> parsed.frm]
                       /\ iter' = iter + 1
                       /\ io' = io \cup {"get", "imshow"}
                       /\ UNCHANGED <<pc, err, createVars, ckeys>>
    /\ UNCHANGED <<fsVars, storeVars, calls, histVars, keyVars>>

\* check_lmdb returns and the script ends
CheckReturn ==
    /\ pc = "sample"
    /\ iter = NumSamples
    /\ pc' = "done"
    /\ LocalsReset
    /\ UNCHANGED <<fsVars, storeVars, err, calls, io, histVars, keyVars>>

(***************************************************************************)
(* A run ends at any line by an error of the file system or of a library   *)
(* that nothing handles, or by the process being killed.                   *)
(***************************************************************************)
RunningPcs ==
    {"main", "create_assert", "retrieve", "estimate", "open", "write",
     "open_meta", "dump_meta", "check_assert", "load_meta", "open_read", "sample"}

Abort ==
    /\ pc \in RunningPcs
    /\ Raise("Aborted")
    /\ UNCHANGED <<fsVars, storeVars, calls, io, histVars, keyVars>>

Next ==
    \/ Invoke
    \/ Main
    \/ CreateAssert
    \/ Retrieve
    \/ Estimate
    \/ ComputeAlloc
    \/ OpenStore
    \/ PutFrame
    \/ EndSeq
    \/ FinalCommit
    \/ OpenMeta
    \/ DumpMeta
    \/ CheckAssert
    \/ LoadMeta
    \/ OpenRead
    \/ Sample
    \/ CheckReturn
    \/ Abort

Spec == Init /\ [][Next]_vars

(***************************************************************************)
(* The key round trip: the key create_lmdb builds at line 56, parsed as    *)
(* check_lmdb parses it at lines 103-106.                                  *)
(***************************************************************************)
InitKey ==
    /\ dataset = "VimeoTecoGAN"
    /\ rawDir = [d \in {} |-> <<>>] /\ filterFile = NoFilter
    /\ lmdbDir = FALSE /\ committed = EmptyStore /\ metaFile = NoMeta
    /\ pc = "key_format" /\ err = "" /\ calls = <<>> /\ io = {}
    /\ LocalsInit
    /\ nwritten = 0 /\ seqsInTxn = 0 /\ commitLog = <<>> /\ existed = lmdbDir
    /\ kin \in KeyInputs /\ kkey = <<>> /\ kparsed = NoParse

KeyFormat ==
    /\ pc = "key_format"
    /\ kkey' = FormatKey(kin.seq, kin.n, kin.h, kin.w, kin.i)
    /\ pc' = "key_parse"
    /\ UNCHANGED <<fsVars, storeVars, err, calls, io, createVars, checkVars,
                   histVars, kin, kparsed>>

KeyParse ==
    /\ pc = "key_parse"
    /\ kparsed' = ParseKey(kkey)
    /\ pc' = "key_done"
    /\ UNCHANGED <<fsVars, storeVars, err, calls, io, createVars, checkVars,
                   histVars, kin, kkey>>

NextKey ==
    \/ KeyFormat
    \/ KeyParse

SpecKey == InitKey /\ [][NextKey]_vars

(***************************************************************************)
(* Properties.                                                             *)
(***************************************************************************)
Range(f) == { f[x] : x \in DOMAIN f }

NoDuplicates(lst) == \A j, k \in 1..Len(lst) : lst[j] = lst[k] => j = k

\* the *.png files of a sequence directory, counted in the raw directory
FrameCount(seq_dir) == IF seq_dir \in DOMAIN rawDir THEN Len(rawDir[seq_dir]) ELSE 0

RECURSIVE SumFrameCounts(_)
SumFrameCounts(lst) ==
    IF lst = <<>> THEN 0 ELSE FrameCount(Head(lst)) + SumFrameCounts(Tail(lst))

\* the entries the builder has put: committed, or pending in its transaction
PutEntries == Commit(committed, txn.puts)

\* create_lmdb has returned in this run
BuildCompleted ==
    /\ calls = <<"create_lmdb", "check_lmdb">>
    /\ metaFile.state = "written"

\* this run ended inside create_lmdb
BuildAborted == pc = "failed" /\ calls = <<"create_lmdb">>

\* C1: every entry create_lmdb has put holds height * width * 3 bytes, height
\* and width being the second and third number of the NxHxW segment of its key
C1_ValueLengthMatchesKey ==
    \A key \in DOMAIN PutEntries :
        LET sz == ParseKey(key).sz
        IN  PutEntries[key] = sz[1] * sz[2] * 3

\* C2 as stated: the allocation size is at least the value bytes written, for
\* any frames
C2_AllocCoversWritten ==
    pc \in {"write", "open_meta", "dump_meta"} => alloc_size >= nwritten

\* every frame of every sequence of the list decodes to an array of as many
\* bytes as the first frame of its sequence
UniformFrames ==
    \A j \in 1..Len(SeqDirLst) :
        LET frames == Glob(SeqDirLst[j])
        IN  \A k \in 1..Len(frames) :
                frames[k].decoded /\ NBytes(frames[k]) = NBytes(frames[1])

\* C2 amended: the allocation size is at least the value bytes written when
\* the frames of each sequence all have the byte size of its first frame
C2_AllocCoversUniform ==
    (pc \in {"write", "open_meta", "dump_meta"} /\ UniformFrames)
        => alloc_size >= nwritten

\* a build of two sequences of uniform frames has put all of its frames
C2_Witness ==
    /\ pc = "open_meta" /\ UniformFrames
    /\ Len(seq_dir_lst) = 2 /\ Len(keys) = 3
    /\ nwritten > 0 /\ alloc_size >= nwritten

\* C3 as stated: after a completed build the key list has no duplicates and
\* lists exactly the keys of the store, for any sequence list
C3_KeyListMatchesStore ==
    BuildCompleted =>
        /\ NoDuplicates(metaFile.keys)
        /\ Range(metaFile.keys) = DOMAIN committed
        /\ Len(metaFile.keys) = Cardinality(DOMAIN committed)

\* C3 amended: the same, for a sequence list that names no sequence twice
C3_KeyListMatchesStoreDistinct ==
    (BuildCompleted /\ NoDuplicates(SeqDirLst)) =>
        /\ NoDuplicates(metaFile.keys)
        /\ Range(metaFile.keys) = DOMAIN committed
        /\ Len(metaFile.keys) = Cardinality(DOMAIN committed)

\* a completed build from the lines of a filter file, two sequences, 3 keys
C3_Witness ==
    /\ BuildCompleted /\ filterFile.given /\ NoDuplicates(SeqDirLst)
    /\ Len(SeqDirLst) = 2
    /\ Len(metaFile.keys) = 3 /\ Cardinality(DOMAIN committed) = 3

\* C4: after a completed build the metadata record lists as many keys as the
\* sequences of the list have *.png files in all
C4_KeyCountIsFrameCount ==
    BuildCompleted => Len(metaFile.keys) = SumFrameCounts(SeqDirLst)

\* a completed build of two sequences with 1 and 2 frames
C4_Witness ==
    /\ BuildCompleted /\ Len(SeqDirLst) = 2
    /\ FrameCount(SeqDirLst[1]) # FrameCount(SeqDirLst[2])
    /\ Len(metaFile.keys) = 3

WriteIo == {"put", "commit", "write_meta"}

\* C5: a run that starts with the store directory present never calls
\* create_lmdb, calls check_lmdb alone and changes neither the store nor
\* the metadata file
C5_ExistingStoreOnlyChecked ==
    [][existed => /\ UNCHANGED <<lmdbDir, committed, metaFile>>
                  /\ calls' \in {<<>>, <<"check_lmdb">>}
                  /\ io' \cap WriteIo = {}
                  /\ pc' \in {"main", "check_assert", "load_meta", "open_read",
                              "sample", "done", "failed"}]_vars

\* a run over the directory an unfinished build left has gone into check_lmdb,
\* which found no metadata file
C5_Witness ==
    /\ existed /\ calls = <<"check_lmdb">>
    /\ committed # EmptyStore /\ metaFile.state = "absent"
    /\ pc = "failed" /\ err = "FileNotFoundError"

\* C6: with a dataset other than the two recognized ones the run gets no
\* further than the assertion of create_lmdb or check_lmdb: beyond the
\* driver's osp.exists it reads no file or directory, opens no store and
\* reads or writes no metadata file, and it ends with the assertion's error
C6_UnknownDatasetNoIo ==
    dataset \notin {"VimeoTecoGAN", "VimeoTecoGAN-sub"} =>
        /\ io \subseteq {"exists"}
        /\ pc \in {"main", "create_assert", "check_assert", "failed"}
        /\ pc = "failed" => err \in {"AssertionError", "Aborted"}
        /\ committed = EmptyStore /\ metaFile = NoMeta
        /\ lmdbDir = existed

\* the assertion of check_lmdb, reached through the driver, has failed
C6_Witness ==
    /\ dataset = "REDS" /\ calls = <<"check_lmdb">>
    /\ pc = "failed" /\ err = "AssertionError"

\* f'{i:04d}' of the frame indexes of the round trip, written out
IndexString(idx) ==
    CASE idx = 0 -> <<"0", "0", "0", "0">>
      [] idx = 1 -> <<"0", "0", "0", "1">>
      [] idx = 10 -> <<"0", "0", "1", "0">>
      [] idx = 9999 -> <<"9", "9", "9", "9">>
      [] idx = 10000 -> <<"1", "0", "0", "0", "0">>

\* C7: parsing the key built from seq, n, h, w and i gives back seq, the shape
\* (h, w, 3) and the zero-padded index string of i
C7_ParseInvertsFormat ==
    pc = "key_done" =>
        /\ kparsed.ok
        /\ kparsed.vid = kin.seq
        /\ kparsed.sz = <<kin.h, kin.w, 3>>
        /\ kparsed.frm = IndexString(kin.i)

\* the round trip of a sequence id with underscores in it
C7_Witness ==
    /\ pc = "key_done" /\ kparsed.ok
    /\ kin.seq = <<"a", "_", "_">> /\ kparsed.vid = kin.seq
    /\ kin.h = 10 /\ kin.w = 64 /\ kin.i = 10

\* the keys of the frames of one sequence, index 0 first
SeqKeys(seq_dir) ==
    LET frames == IF seq_dir \in DOMAIN rawDir THEN rawDir[seq_dir] ELSE <<>>
    IN  [j \in 1..Len(frames) |->
            FormatKey(seq_dir, Len(frames), frames[j].shape[1], frames[j].shape[2],
                      j - 1)]

RECURSIVE ConcatKeys(_)
ConcatKeys(lst) ==
    IF lst = <<>> THEN <<>> ELSE SeqKeys(Head(lst)) \o ConcatKeys(Tail(lst))

IsSortedList(lst) == \A j \in 1..(Len(lst) - 1) : ~StrLess(lst[j + 1], lst[j])

Times(x, lst) == Cardinality({ j \in 1..Len(lst) : lst[j] = x })

Size64Index == <<"x", "6", "4", "x", "6", "4", "_", "0", "0", "0">>

\* seq01_3x64x64_0000 .. 0002, seq02_2x64x64_0000 .. 0001
ScenarioKeys ==
    << Seq01 \o <<"_", "3">> \o Size64Index \o <<"0">>,
       Seq01 \o <<"_", "3">> \o Size64Index \o <<"1">>,
       Seq01 \o <<"_", "3">> \o Size64Index \o <<"2">>,
       Seq02 \o <<"_", "2">> \o Size64Index \o <<"0">>,
       Seq02 \o <<"_", "2">> \o Size64Index \o <<"1">> >>

\* C8: the key list of a completed build is the concatenation, over the
\* sequences in sorted order, of the keys of the frames 0 .. n-1 of each; a
\* sequence of one frame gives one key, of index 0000, each time the list names
\* it; seq01 (3 frames) and seq02 (2 frames) of 64x64 give the 5 keys of the
\* scenario
C8_KeyListIsConcatenation ==
    BuildCompleted =>
        /\ metaFile.keys = ConcatKeys(SeqDirLst)
        /\ IsSortedList(SeqDirLst)
        /\ \A x \in Range(SeqDirNames) \cup Range(SeqDirLst) :
               Times(x, SeqDirLst) = Times(x, SeqDirNames)
        /\ \A seq_dir \in Range(SeqDirLst) :
               FrameCount(seq_dir) = 1 =>
                   LET own == { k \in 1..Len(metaFile.keys) :
                                    ParseKey(metaFile.keys[k]).vid = seq_dir }
                   IN  /\ Cardinality(own) = Times(seq_dir, SeqDirLst)
                       /\ \A k \in own :
                              ParseKey(metaFile.keys[k]).frm = <<"0", "0", "0", "0">>
        /\ rawDir = ScenarioDir => metaFile.keys = ScenarioKeys

\* the build of the scenario has completed with its 5 keys
C8_Witness ==
    /\ BuildCompleted /\ rawDir = ScenarioDir
    /\ Len(metaFile.keys) = 5

\* the sequences whose puts the open transaction holds
UncommittedSpan == seqsInTxn + (IF i > 0 THEN 1 ELSE 0)

\* C9 as stated: every periodic commit commits a batch of 5 sequences
C9_EveryCommitAfterFive ==
    \A j \in 1..Len(commitLog) : commitLog[j] = 5

\* C9 amended: the first periodic commit comes after the first sequence alone
\* and every later one after 5 further sequences; the uncommitted writes never
\* span more than 5 sequences; a write transaction is open throughout the
\* loop; when the loop has ended every entry put is committed and no write
\* transaction is open
C9_CommitBatches ==
    /\ \A j \in 1..Len(commitLog) : commitLog[j] = (IF j = 1 THEN 1 ELSE 5)
    /\ UncommittedSpan <= 5
    /\ pc = "write" => txn.open
    /\ (pc = "write" /\ b > 0 /\ i = 0) =>
           (seqsInTxn = 0 <=> (b - 1) % 5 = 0)
    /\ pc \in {"open_meta", "dump_meta"} =>
           /\ ~txn.open /\ txn.puts = EmptyStore
           /\ Range(keys) = DOMAIN committed

\* a build of more than 10 sequences has ended its loop after 3 periodic
\* commits
C9_Witness ==
    /\ pc = "open_meta" /\ Len(commitLog) = 3 /\ Len(seq_dir_lst) = 11
    /\ Cardinality(DOMAIN committed) = 11

\* C10 as stated: the keys a metadata file lists are committed, and an aborted
\* build leaves the store directory without a metadata file
C10_AbortLeavesNoMetaFile ==
    /\ \A key \in Range(metaFile.keys) : key \in DOMAIN committed
    /\ (BuildAborted /\ lmdbDir) => metaFile.state = "absent"

\* C10 amended: the metadata file is created only after the final commit and
\* the close of the store and the keys it lists are committed; a build that
\* aborts before line 73 opens the file leaves no metadata file, one that
\* aborts after that leaves at most an empty one
C10_MetaOnlyAfterCommit ==
    /\ \A key \in Range(metaFile.keys) : key \in DOMAIN committed
    /\ (metaFile.state # "absent" /\ calls = <<"create_lmdb">>) =>
           /\ "commit" \in io /\ "write_meta" \in io
           /\ pc \in {"dump_meta", "failed"}
           /\ ~txn.open
    /\ metaFile.state = "written" => Range(metaFile.keys) \subseteq DOMAIN committed
    /\ (BuildAborted /\ "write_meta" \notin io) => metaFile.state = "absent"
    /\ BuildAborted => metaFile.state \in {"absent", "empty"}

\* a build aborted in its second sequence: the first is committed and there is
\* no metadata file
C10_Witness ==
    /\ BuildAborted /\ lmdbDir /\ "put" \in io
    /\ committed # EmptyStore /\ metaFile.state = "absent"

=============================================================================
